---- MODULE Spec2Model ----
(***************************************************************************)
(* Model of charmcraft/commands/store/registry.py: the OCI registry client *)
(* (OCIRegistry), its response check (assert_response_ok) and the image    *)
(* handler built on it.                                                    *)
(*                                                                         *)
(* The HTTP transport (requests.request / requests.get) is the environment:*)
(* every request the client issues is answered by a response drawn from a  *)
(* bounded set.  A client operation is cut at its network exchanges: one   *)
(* action sends a request, the next receives the answer and runs the code  *)
(* up to the next request or to the operation's end.                       *)
(***************************************************************************)
EXTENDS Integers, Sequences, FiniteSets, TLC

VARIABLES
    auth_token,                 \* OCIRegistry.auth_token
    auth_encoded_credentials,   \* OCIRegistry.auth_encoded_credentials
    pc,                         \* where the running operation stands
    op,                         \* the running operation and its local variables
    hit,                        \* the local variables of the running _hit call
    outcome,                    \* how the last operation ended (return / raise)
    sent,                       \* requests issued by the running operation, in order
    recv,                       \* responses received by the running operation, in order
    token_at_call,              \* auth_token when the running operation started
    arg,                        \* input of the pure-function specifications
    ret,                        \* their output
    extract,                    \* the local variables of the running _extract_file call
    previous,                   \* what the extraction before returned, if of the same entry
    callers,                    \* the _hit calls of concurrent callers, each with its locals
    events                      \* what the concurrent callers did to the token, in order

vars == <<auth_token, auth_encoded_credentials, pc, op, hit, outcome, sent, recv,
          token_at_call, arg, ret, extract, previous, callers, events>>

\* the variables of the registry client's sequential use, and the others
registry_vars == <<auth_token, auth_encoded_credentials, op, hit, sent, recv,
                   token_at_call, arg, ret>>
extract_vars == <<extract, previous>>
concurrent_vars == <<callers, events>>

(***************************************************************************)
(* Bounds of the model.                                                    *)
(***************************************************************************)
NumTokens == 2      \* distinct tokens the auth server can issue
NumRefs == 2        \* distinct references the caller can ask for
NumPayloads == 2    \* distinct (digest, raw text) payloads a registry can answer
MaxLen == 3         \* longest content of an archive entry, in bytes
CHUNK_SIZE == 2     \* line 49, scaled down from 2 ** 20 to the contents of the model

(***************************************************************************)
(* Python values.                                                          *)
(***************************************************************************)
None == "None"

TokenNames == <<"T1", "T2", "T3", "T4">>
Tokens == {TokenNames[i] : i \in 1..NumTokens}
RefNames == <<"latest", "v1", "v2", "v3">>
Refs == {RefNames[i] : i \in 1..NumRefs}

\* dict.get(key): None when the key is missing
Get(d, k) == IF k \in DOMAIN d THEN d[k] ELSE None

\* the None a function returns in place of a parsed JSON object: kept a function of
\* its keys, as the JSON objects are, so that the two compare
NoneObject == [py_none |-> TRUE]
IsNone(v) == "py_none" \in DOMAIN v

Return(v) == [kind |-> "return", value |-> v]
Raise(exc, msg) == [kind |-> "raise", exc |-> exc, msg |-> msg]
Raised(o) == o.kind = "raise"

(***************************************************************************)
(* Mimetypes (registry.py lines 36-44).                                    *)
(***************************************************************************)
MANIFEST_LISTS == "application/vnd.docker.distribution.manifest.list.v2+json"
MANIFEST_V2_MIMETYPE == "application/vnd.docker.distribution.manifest.v2+json"
JSON_RELATED_MIMETYPES ==
    { "application/json",
      "application/vnd.docker.distribution.manifest.v1+prettyjws",
      MANIFEST_LISTS,
      MANIFEST_V2_MIMETYPE }

\* response.headers.get("Content-Type") in JSON_RELATED_MIMETYPES
IsJsonResponse(response) == Get(response.headers, "Content-Type") \in JSON_RELATED_MIMETYPES

(***************************************************************************)
(* assert_response_ok (lines 52-73).  The body of a response is its parsed *)
(* JSON object, a function from its keys; response.json() is only called  *)
(* when the content type is one of JSON_RELATED_MIMETYPES.                 *)
(***************************************************************************)
\* faulty variant: a matching status is accepted without looking for "errors"
assert_response_ok_no_errors_check(response, expected_status) ==
    IF response.status_code # expected_status
    THEN Raise("CommandError",
               [what |-> "Wrong status code from server",
                expected |-> expected_status,
                got |-> response.status_code,
                errors |-> IF IsJsonResponse(response)
                           THEN Get(response.body, "errors") ELSE None,
                headers |-> response.headers])
    ELSE IF ~IsJsonResponse(response) THEN Return(NoneObject)
    ELSE Return(response.body)

assert_response_ok(response, expected_status) ==
    IF response.status_code # expected_status
    THEN Raise("CommandError",
               [what |-> "Wrong status code from server",
                expected |-> expected_status,
                got |-> response.status_code,
                errors |-> IF IsJsonResponse(response)
                           THEN Get(response.body, "errors") ELSE None,
                headers |-> response.headers])
    ELSE IF ~IsJsonResponse(response) THEN Return(NoneObject)
    ELSE IF "errors" \in DOMAIN response.body
         THEN Raise("CommandError",
                    [what |-> "Response with errors from server",
                     errors |-> response.body["errors"]])
    ELSE Return(response.body)

(***************************************************************************)
(* What the transport can answer.  A response is                           *)
(*   [status_code, headers, body, text]                                    *)
(* headers is a function from the header names present (the transport's    *)
(* mapping is case-insensitive, so one spelling per header); body is the   *)
(* parsed JSON object; text is the raw payload.                            *)
(***************************************************************************)
Statuses == {200, 201, 401, 404, 500}

Payloads == 1..NumPayloads
DigestOf(p) == <<"sha256", p>>
TextOf(p) == <<"raw", p>>

\* a JSON object with the keys that are not "absent" (schemaVersion: 0 = absent)
JObj(manifests, schemaVersion, errors) ==
    [k \in (IF manifests = "absent" THEN {} ELSE {"manifests"})
           \cup (IF schemaVersion = 0 THEN {} ELSE {"schemaVersion"})
           \cup (IF errors = "absent" THEN {} ELSE {"errors"})
           \cup {"name"} |->
        CASE k = "manifests" -> manifests
          [] k = "schemaVersion" -> schemaVersion
          [] k = "errors" -> errors
          [] k = "name" -> "image"]

\* JSON null is Python's None; "ML0" is the empty list, "ML2" a list of descriptors
ManifestsValues == {"absent", None, "ML0", "ML2"}
ManifestBodies ==
    {JObj(m, sv, "absent") : m \in ManifestsValues, sv \in {0, 1, 2}}
    \cup {JObj("absent", 0, "E1"), JObj("ML2", 2, "E1")}

NoBody == [name |-> "empty"]

\* the headers of a response: no Content-Type when content_type is "absent", no
\* Www-Authenticate when the challenge's scheme is "absent", no
\* Docker-Content-Digest when payload is 0
Headers(content_type, challenge, payload) ==
    [k \in (IF content_type = "absent" THEN {} ELSE {"Content-Type"})
           \cup (IF challenge.scheme = "absent" THEN {} ELSE {"Www-Authenticate"})
           \cup (IF payload = 0 THEN {} ELSE {"Docker-Content-Digest"}) |->
        CASE k = "Content-Type" -> content_type
          [] k = "Www-Authenticate" -> challenge
          [] k = "Docker-Content-Digest" -> DigestOf(payload)]

\* the value of a Www-Authenticate header: the scheme its text starts with, the
\* key=value items that follow, and whether an item without "=" is among them
AllParams == [realm |-> "R", service |-> "S", scope |-> "P"]
Restrict(f, S) == [k \in S |-> f[k]]
NoChallenge == [scheme |-> "absent", params |-> AllParams, bare |-> FALSE]
Challenges ==
    {[scheme |-> "Bearer", params |-> Restrict(AllParams, K), bare |-> FALSE] :
        K \in SUBSET DOMAIN AllParams}
    \cup {[scheme |-> "Bearer", params |-> AllParams, bare |-> TRUE],
          [scheme |-> "Basic", params |-> AllParams, bare |-> FALSE]}

Unauthorized ==
    {[status_code |-> 401, headers |-> Headers("text/plain", c, 0),
      body |-> NoBody, text |-> TextOf(1)] : c \in Challenges \cup {NoChallenge}}
    \cup {[status_code |-> 401,
           headers |-> Headers("application/json", NoChallenge, 0),
           body |-> JObj("absent", 0, "E1"), text |-> TextOf(1)]}

\* answers to a HEAD request carry no body
HeadAnswers ==
    {[status_code |-> s, headers |-> Headers(ct, NoChallenge, 1),
      body |-> NoBody, text |-> TextOf(1)] :
        s \in Statuses \ {401}, ct \in {"application/json", "text/plain"}}
    \cup {r \in Unauthorized : r.body = NoBody}

BodyAnswers ==
    {[status_code |-> s, headers |-> Headers("application/json", NoChallenge, p),
      body |-> b, text |-> TextOf(p)] :
        s \in Statuses \ {401}, b \in ManifestBodies, p \in Payloads}
    \cup {[status_code |-> s, headers |-> Headers("text/plain", NoChallenge, p),
           body |-> NoBody, text |-> TextOf(p)] :
        s \in Statuses \ {401}, p \in Payloads}
    \cup Unauthorized

\* a registry that rejects an uploaded manifest answers 400, with or without a
\* list of errors
BadRequests ==
    {[status_code |-> 400, headers |-> Headers("application/json", NoChallenge, 0),
      body |-> b, text |-> TextOf(1)] :
        b \in {JObj("absent", 0, "E1"), JObj("absent", 0, "absent")}}
    \cup {[status_code |-> 400, headers |-> Headers("text/plain", NoChallenge, 0),
           body |-> NoBody, text |-> TextOf(1)]}

Answers(request) ==
    IF request.method = "HEAD" THEN HeadAnswers
    ELSE IF request.method = "PUT" THEN BodyAnswers \cup BadRequests
    ELSE BodyAnswers

\* answers of the auth server to the token exchange
TokenBodies ==
    {[token |-> t] : t \in Tokens}
    \cup {[token |-> TokenNames[1], errors |-> "E1"], [errors |-> "E1"],
          [access_token |-> TokenNames[1]]}
TokenAnswers ==
    {[status_code |-> s, headers |-> Headers("application/json", NoChallenge, 0),
      body |-> b, text |-> TextOf(1)] : s \in {200, 403}, b \in TokenBodies}
    \cup {[status_code |-> s, headers |-> Headers("text/plain", NoChallenge, 0),
           body |-> NoBody, text |-> TextOf(1)] : s \in {200, 403}}

(***************************************************************************)
(* OCIRegistry.  The client is built for one server and one image name.    *)
(***************************************************************************)
Server == [scheme |-> "https", netloc |-> "registry.example"]
ImageName == "the-image"

\* _get_url (lines 113-115): "{server}/v2/{image_name}/{subpath}"
get_url(kind, reference) ==
    [server |-> Server, image_name |-> ImageName, kind |-> kind, reference |-> reference]

\* get_fully_qualified_url (lines 148-151): "{netloc}/{image_name}@{digest}"
get_fully_qualified_url(digest) == <<Server.netloc, ImageName, digest>>

\* a request handed to the transport; headers is a function from the names present
Request(method, url, headers, data) ==
    [method |-> method, url |-> url, headers |-> headers, data |-> data]

NoHeaders == [k \in {} |-> None]
SetHeader(headers, name, value) ==
    [k \in DOMAIN headers \cup {name} |-> IF k = name THEN value ELSE headers[k]]
Bearer(token) == <<"Bearer", token>>
Basic(credentials) == <<"Basic", credentials>>

\* _get_auth_info (lines 117-123): the challenge's parameters, or the exception
\* faulty variant: the "Bearer " prefix is not checked
get_auth_info_any_scheme(response) ==
    IF "Www-Authenticate" \notin DOMAIN response.headers
    THEN Raise("KeyError", "Www-Authenticate")
    ELSE LET www_auth == response.headers["Www-Authenticate"] IN
         IF www_auth.bare
         THEN Raise("ValueError", "not enough values to unpack")
         ELSE Return(www_auth.params)

get_auth_info(response) ==
    IF "Www-Authenticate" \notin DOMAIN response.headers
    THEN Raise("KeyError", "Www-Authenticate")
    ELSE LET www_auth == response.headers["Www-Authenticate"] IN
         IF www_auth.scheme # "Bearer"
         THEN Raise("ValueError", "Bearer not found")
         ELSE IF www_auth.bare
         THEN Raise("ValueError", "not enough values to unpack")
         ELSE Return(www_auth.params)

\* _authenticate up to its request (lines 101-107): format_map raises KeyError
\* on the first of realm, service, scope that auth_info lacks
authenticate_request(credentials, auth_info) ==
    LET headers == IF credentials # None
                   THEN SetHeader(NoHeaders, "Authorization", Basic(credentials))
                   ELSE NoHeaders
    IN  IF "realm" \notin DOMAIN auth_info THEN Raise("KeyError", "realm")
        ELSE IF "service" \notin DOMAIN auth_info THEN Raise("KeyError", "service")
        ELSE IF "scope" \notin DOMAIN auth_info THEN Raise("KeyError", "scope")
        ELSE Return(Request("GET",
                            [kind |-> "token", realm |-> auth_info["realm"],
                             service |-> auth_info["service"],
                             scope |-> auth_info["scope"]],
                            headers, None))

\* _authenticate from its response on (lines 109-111)
\* faulty variant: the token is taken from the answer whatever its status
authenticate_result_any_status(response) ==
    IF ~IsJsonResponse(response)
    THEN Raise("TypeError", "'NoneType' object is not subscriptable")
    ELSE IF "token" \notin DOMAIN response.body THEN Raise("KeyError", "token")
    ELSE Return(response.body["token"])

authenticate_result(response) ==
    LET result == assert_response_ok(response, 200) IN
    IF Raised(result) THEN result
    ELSE IF IsNone(result.value)
         THEN Raise("TypeError", "'NoneType' object is not subscriptable")
    ELSE IF "token" \notin DOMAIN result.value THEN Raise("KeyError", "token")
    ELSE Return(result.value["token"])

\* _hit up to its first request (lines 127-133)
\* faulty variant: the cached token is not attached to the request
hit_request_without_token(token, method, url, headers, data) ==
    Request(method, url, headers, data)

hit_request(token, method, url, headers, data) ==
    Request(method, url,
            IF token # None THEN SetHeader(headers, "Authorization", Bearer(token))
            ELSE headers,
            data)

\* _hit on its first response (lines 134-142, into _authenticate): the response is
\* returned, or the send fails, or the token exchange is requested
\* faulty variant: a 500 is taken for a challenge as well
hit_on_response_retry_server_errors(credentials, response) ==
    IF response.status_code \notin {401, 500}
    THEN [kind |-> "return", value |-> response]
    ELSE LET auth_info == get_auth_info(response) IN
         IF Raised(auth_info)
         THEN Raise("CommandError",
                    [what |-> "Bad 401 response", exc |-> auth_info.exc,
                     headers |-> response.headers])
         ELSE LET request == authenticate_request(credentials, auth_info.value) IN
              IF Raised(request) THEN request
              ELSE [kind |-> "authenticate", request |-> request.value]

hit_on_response(credentials, response) ==
    IF response.status_code # 401
    THEN [kind |-> "return", value |-> response]
    ELSE LET auth_info == get_auth_info(response) IN
         IF Raised(auth_info)
         THEN Raise("CommandError",
                    [what |-> "Bad 401 response", exc |-> auth_info.exc,
                     headers |-> response.headers])
         ELSE LET request == authenticate_request(credentials, auth_info.value) IN
              IF Raised(request) THEN request
              ELSE [kind |-> "authenticate", request |-> request.value]

\* _hit on the token exchange's response (lines 142-144): the new token and the
\* reissued request, or the exception of _authenticate
hit_on_token(response, method, url, headers, data) ==
    LET token == authenticate_result(response) IN
    IF Raised(token) THEN token
    ELSE [kind |-> "retry", auth_token |-> token.value,
          request |-> Request(method, url,
                              SetHeader(headers, "Authorization", Bearer(token.value)),
                              data)]

\* a further _hit call the running operation makes
Hit(stage, method, url, headers, data) ==
    [kind |-> "hit", stage |-> stage, method |-> method, url |-> url,
     headers |-> headers, data |-> data]

\* _is_item_already_uploaded from its response on (lines 157-173)
\* faulty variant: every status but 404 counts as uploaded
is_item_already_uploaded_not_404(response) == response.status_code # 404

is_item_already_uploaded(response) ==
    IF response.status_code = 200 THEN TRUE
    ELSE IF response.status_code = 404 THEN FALSE
    ELSE FALSE

\* upload_manifest from its response on (lines 203-204)
\* faulty variant: the default expected status, 200, is enforced
upload_manifest_result_expects_200(response) ==
    LET result == assert_response_ok(response, 200) IN
    IF Raised(result) THEN result ELSE Return(None)

upload_manifest_result(response) ==
    LET result == assert_response_ok(response, 201) IN
    IF Raised(result) THEN result ELSE Return(None)

\* get_manifest from its first response on (lines 214-231)
\* faulty variant: the v2 manifest is asked for whatever the schema version
get_manifest_first_renegotiates_always(reference, response) ==
    LET result == assert_response_ok(response, 200) IN
    IF Raised(result) THEN result
    ELSE IF IsNone(result.value)
         THEN Raise("AttributeError", "'NoneType' object has no attribute 'get'")
    ELSE LET digest == response.headers["Docker-Content-Digest"]
             manifests == Get(result.value, "manifests")
         IN  IF manifests # None
             THEN Return(<<manifests, digest, response.text>>)
             ELSE IF "schemaVersion" \notin DOMAIN result.value
             THEN Raise("KeyError", "schemaVersion")
             ELSE Hit("second", "GET", get_url("manifests", reference),
                      SetHeader(NoHeaders, "Accept", MANIFEST_V2_MIMETYPE), None)

get_manifest_first(reference, response) ==
    LET result == assert_response_ok(response, 200) IN
    IF Raised(result) THEN result
    ELSE IF IsNone(result.value)
         THEN Raise("AttributeError", "'NoneType' object has no attribute 'get'")
    ELSE LET digest == response.headers["Docker-Content-Digest"]
             manifests == Get(result.value, "manifests")
         IN  IF manifests # None
             THEN Return(<<manifests, digest, response.text>>)
             ELSE IF "schemaVersion" \notin DOMAIN result.value
             THEN Raise("KeyError", "schemaVersion")
             ELSE IF result.value["schemaVersion"] # 2
             THEN Hit("second", "GET", get_url("manifests", reference),
                      SetHeader(NoHeaders, "Accept", MANIFEST_V2_MIMETYPE), None)
             ELSE Return(<<None, digest, response.text>>)

\* get_manifest from its second response on (lines 232-240); first_digest is the
\* digest line 215 read from the first response
\* faulty variant: the digest of the first response is kept
get_manifest_second_keeps_digest(reference, first_digest, response) ==
    LET result == assert_response_ok(response, 200) IN
    IF Raised(result) THEN result
    ELSE IF IsNone(result.value)
         THEN Raise("AttributeError", "'NoneType' object has no attribute 'get'")
    ELSE IF ~("schemaVersion" \in DOMAIN result.value
              /\ result.value["schemaVersion"] = 2)
         THEN Raise("CommandError", [what |-> "Manifest v2 not found", reference |-> reference])
    ELSE Return(<<None, first_digest, response.text>>)

get_manifest_second(reference, first_digest, response) ==
    LET result == assert_response_ok(response, 200) IN
    IF Raised(result) THEN result
    ELSE IF IsNone(result.value)
         THEN Raise("AttributeError", "'NoneType' object has no attribute 'get'")
    ELSE IF ~("schemaVersion" \in DOMAIN result.value
              /\ result.value["schemaVersion"] = 2)
         THEN Raise("CommandError", [what |-> "Manifest v2 not found", reference |-> reference])
    ELSE Return(<<None, response.headers["Docker-Content-Digest"], response.text>>)

\* get_destination_url after its probe (lines 273-281)
\* faulty variant: the manifest is resolved whatever the probe reports
get_destination_url_probe_ignored(reference, uploaded) ==
    Hit("first", "GET", get_url("manifests", reference),
        SetHeader(NoHeaders, "Accept", MANIFEST_LISTS), None)

get_destination_url_probe(reference, uploaded) ==
    IF ~uploaded
    THEN Raise("CommandError",
               [what |-> "image does not exist in the destination registry",
                reference |-> reference])
    ELSE Hit("first", "GET", get_url("manifests", reference),
             SetHeader(NoHeaders, "Accept", MANIFEST_LISTS), None)

\* get_destination_url after get_manifest (lines 281-283)
get_destination_url_result(manifest) ==
    IF manifest.kind = "return"
    THEN Return(get_fully_qualified_url(manifest.value[2]))
    ELSE manifest

\* the first _hit call of each operation
op_start(name, reference, manifest_data) ==
    CASE name = "_hit" ->
            Hit("send", "GET", get_url("manifests", reference), NoHeaders, None)
      [] name \in {"is_manifest_already_uploaded", "check_in_registry"} ->
            Hit("send", "HEAD", get_url("manifests", reference), NoHeaders, None)
      [] name = "is_blob_already_uploaded" ->
            Hit("send", "HEAD", get_url("blobs", reference), NoHeaders, None)
      [] name = "upload_manifest" ->
            Hit("send", "PUT", get_url("manifests", reference),
                SetHeader(NoHeaders, "Content-Type", MANIFEST_V2_MIMETYPE),
                <<"utf8", manifest_data>>)
      [] name = "get_manifest" ->
            Hit("first", "GET", get_url("manifests", reference),
                SetHeader(NoHeaders, "Accept", MANIFEST_LISTS), None)
      [] name = "get_destination_url" ->
            Hit("probe", "HEAD", get_url("manifests", reference), NoHeaders, None)

\* what operation o does with the response its _hit call returned
op_on_response(o, response) ==
    CASE o.name = "_hit" -> Return(response)
      [] o.name \in {"is_manifest_already_uploaded", "is_blob_already_uploaded",
                     "check_in_registry"} ->
            Return(is_item_already_uploaded(response))
      [] o.name = "upload_manifest" -> upload_manifest_result(response)
      [] o.name = "get_manifest" ->
            IF o.stage = "first" THEN get_manifest_first(o.reference, response)
            ELSE get_manifest_second(o.reference, o.digest, response)
      [] o.name = "get_destination_url" ->
            IF o.stage = "probe"
            THEN get_destination_url_probe(o.reference, is_item_already_uploaded(response))
            ELSE IF o.stage = "first"
            THEN get_destination_url_result(get_manifest_first(o.reference, response))
            ELSE get_destination_url_result(
                     get_manifest_second(o.reference, o.digest, response))

(***************************************************************************)
(* The state machine.                                                      *)
(*   pc = "idle"     no operation is running; outcome, sent, recv and op   *)
(*                   still describe the last one                           *)
(*   pc = "request"  _hit waits for the answer to its request (line 133)   *)
(*   pc = "token"    _authenticate waits for the auth server (line 107)    *)
(*   pc = "retry"    _hit waits for the answer to the reissue (line 144)   *)
(***************************************************************************)
Last(seq) == seq[Len(seq)]

\* op.returned: the responses _hit returned to the operation; op.sends: the _hit
\* calls it made.  hit.first: the place in sent of the call's first request;
\* hit.assigned: the assignments to auth_token the call made.
NoOp == [name |-> "none", reference |-> None, stage |-> "none",
         digest |-> None, returned |-> <<>>, sends |-> 0]
NoHit == [method |-> None, url |-> None, headers |-> NoHeaders, data |-> None,
          first |-> 0, assigned |-> 0]
Credentials == {None, "dXNlcjpwYXNz"}
NoExtract == [name |-> None]
NoCallers == <<>>
ManifestData == "manifest-text"

\* OCIRegistry.__init__ (lines 79-90): no token; credentials when a username is given
Init ==
    /\ auth_token = None
    /\ auth_encoded_credentials \in Credentials
    /\ pc = "idle"
    /\ op = NoOp
    /\ hit = NoHit
    /\ outcome = [kind |-> "none"]
    /\ sent = <<>>
    /\ recv = <<>>
    /\ token_at_call = None
    /\ arg = None
    /\ ret = None
    /\ extract = NoExtract
    /\ previous = {}
    /\ callers = NoCallers
    /\ events = <<>>

\* the running operation enters _hit: the request goes out with the cached token
EnterHit(h, log) ==
    LET request == hit_request(auth_token, h.method, h.url, h.headers, h.data) IN
    /\ hit' = [method |-> h.method, url |-> h.url, headers |-> request.headers,
               data |-> h.data, first |-> Len(log) + 1, assigned |-> 0]
    /\ sent' = Append(log, request)
    /\ pc' = "request"

\* a caller starts operation name
Call(name, reference) ==
    /\ pc = "idle"
    /\ LET h == op_start(name, reference, ManifestData) IN
       /\ op' = [name |-> name, reference |-> reference, stage |-> h.stage,
                 digest |-> None, returned |-> <<>>, sends |-> 1]
       /\ EnterHit(h, <<>>)
    /\ recv' = <<>>
    /\ outcome' = [kind |-> "running"]
    /\ token_at_call' = auth_token
    /\ UNCHANGED <<auth_token, auth_encoded_credentials, arg, ret>>
    /\ UNCHANGED <<extract_vars, concurrent_vars>>

CallHit == \E reference \in Refs : Call("_hit", reference)
IsManifestAlreadyUploaded == \E reference \in Refs : Call("is_manifest_already_uploaded", reference)
IsBlobAlreadyUploaded == \E reference \in Refs : Call("is_blob_already_uploaded", reference)
UploadManifest == \E reference \in Refs : Call("upload_manifest", reference)
GetManifest == \E reference \in Refs : Call("get_manifest", reference)
GetDestinationUrl == \E reference \in Refs : Call("get_destination_url", reference)
CheckInRegistry == \E reference \in Refs : Call("check_in_registry", reference)

\* the operation ends, returning or raising
Finish(result) ==
    /\ pc' = "idle"
    /\ outcome' = result
    /\ UNCHANGED <<hit, sent>>

\* _hit returns response to the running operation, which ends or calls _hit again
HitReturns(response) ==
    LET c == op_on_response(op, response) IN
    IF c.kind = "hit"
    THEN /\ op' = [op EXCEPT !.stage = c.stage,
                             !.digest = Get(response.headers, "Docker-Content-Digest"),
                             !.returned = Append(@, response),
                             !.sends = @ + 1]
         /\ EnterHit(c, sent)
         /\ UNCHANGED outcome
    ELSE /\ op' = [op EXCEPT !.returned = Append(@, response)]
         /\ Finish(c)

\* the answer to _hit's first request arrives (lines 133-142)
ReceiveResponse ==
    /\ pc = "request"
    /\ \E response \in Answers(Last(sent)) :
        /\ recv' = Append(recv, response)
        /\ LET h == hit_on_response(auth_encoded_credentials, response) IN
           CASE h.kind = "return" -> HitReturns(response)
             [] h.kind = "raise" -> Finish(h) /\ UNCHANGED op
             [] h.kind = "authenticate" ->
                    /\ sent' = Append(sent, h.request)
                    /\ pc' = "token"
                    /\ UNCHANGED <<op, hit, outcome>>
    /\ UNCHANGED <<auth_token, auth_encoded_credentials, token_at_call, arg, ret>>
    /\ UNCHANGED <<extract_vars, concurrent_vars>>

\* the auth server's answer arrives (lines 109-111, 142-144)
ReceiveToken ==
    /\ pc = "token"
    /\ \E response \in TokenAnswers :
        /\ recv' = Append(recv, response)
        /\ LET h == hit_on_token(response, hit.method, hit.url, hit.headers, hit.data) IN
           IF h.kind = "raise"
           THEN Finish(h) /\ UNCHANGED auth_token
           ELSE /\ auth_token' = h.auth_token
                /\ hit' = [hit EXCEPT !.headers = h.request.headers,
                                      !.assigned = @ + 1]
                /\ sent' = Append(sent, h.request)
                /\ pc' = "retry"
                /\ UNCHANGED outcome
    /\ UNCHANGED <<op, auth_encoded_credentials, token_at_call, arg, ret>>
    /\ UNCHANGED <<extract_vars, concurrent_vars>>

\* the answer to the reissued request arrives (lines 144-146)
ReceiveRetry ==
    /\ pc = "retry"
    /\ \E response \in Answers(Last(sent)) :
        /\ recv' = Append(recv, response)
        /\ HitReturns(response)
    /\ UNCHANGED <<auth_token, auth_encoded_credentials, token_at_call, arg, ret>>
    /\ UNCHANGED <<extract_vars, concurrent_vars>>

Next ==
    \/ CallHit
    \/ IsManifestAlreadyUploaded
    \/ IsBlobAlreadyUploaded
    \/ UploadManifest
    \/ GetManifest
    \/ ReceiveResponse
    \/ ReceiveToken
    \/ ReceiveRetry

Spec == Init /\ [][Next]_vars

\* the image handler's operations on its registry client
NextHandler ==
    \/ GetDestinationUrl
    \/ CheckInRegistry
    \/ ReceiveResponse
    \/ ReceiveToken
    \/ ReceiveRetry

\* ImageHandler.__init__ (lines 268-269) on a fresh registry client built without a
\* username
InitHandler ==
    /\ Init
    /\ auth_encoded_credentials = None

SpecHandler == InitHandler /\ [][NextHandler]_vars

(***************************************************************************)
(* What the claims speak of, read from the requests and responses of the   *)
(* running (or last) operation.  recv[i] is the answer to sent[i].         *)
(***************************************************************************)
IsTokenRequest(request) == request.url.kind = "token"
Count(seq, P(_)) == Cardinality({i \in DOMAIN seq : P(seq[i])})
Carries(request, token) ==
    /\ "Authorization" \in DOMAIN request.headers
    /\ request.headers["Authorization"] = <<"Bearer", token>>
Is401(response) == response.status_code = 401

\* a content type the spec lists as JSON-bearing
JsonBearing(response) ==
    /\ "Content-Type" \in DOMAIN response.headers
    /\ response.headers["Content-Type"] \in
          {"application/json", MANIFEST_LISTS, MANIFEST_V2_MIMETYPE,
           "application/vnd.docker.distribution.manifest.v1+prettyjws"}

\* a Bearer challenge that parses and names realm, service and scope
ValidChallenge(response) ==
    /\ "Www-Authenticate" \in DOMAIN response.headers
    /\ response.headers["Www-Authenticate"].scheme = "Bearer"
    /\ ~response.headers["Www-Authenticate"].bare
    /\ {"realm", "service", "scope"} \subseteq
            DOMAIN response.headers["Www-Authenticate"].params

\* a token-exchange answer that passes the response-ok check and holds a token
TokenGranted(response) ==
    /\ response.status_code = 200
    /\ JsonBearing(response)
    /\ "errors" \notin DOMAIN response.body
    /\ "token" \in DOMAIN response.body

Ended == pc = "idle" /\ op.name # "none"

(***************************************************************************)
(* C1: one call of _hit.  If the first response is not 401, one request is *)
(* issued, no token exchange happens and that response is returned as it   *)
(* is.  If the first response is 401 with a valid challenge and the token  *)
(* exchange succeeds, exactly one token exchange and exactly one reissue   *)
(* of the original request happen, and the reissued response is returned   *)
(* whatever its status, with no further request.                           *)
(***************************************************************************)
C1_HitSendsOnceOrRetriesOnce ==
    (op.name = "_hit" /\ Len(recv) >= 1) =>
        /\ Len(sent) <= 3
        /\ ~Is401(recv[1]) =>
            /\ Ended
            /\ Len(sent) = 1
            /\ Count(sent, IsTokenRequest) = 0
            /\ outcome = Return(recv[1])
        /\ (Is401(recv[1]) /\ ValidChallenge(recv[1]) /\ Len(recv) >= 2
                /\ TokenGranted(recv[2])) =>
            /\ Len(sent) = 3
            /\ Count(sent, IsTokenRequest) = 1 /\ IsTokenRequest(sent[2])
            /\ sent[3].method = sent[1].method
            /\ sent[3].url = sent[1].url
            /\ sent[3].data = sent[1].data
            /\ Len(recv) = 3 => (Ended /\ outcome = Return(recv[3]))
            /\ Ended => Len(recv) = 3

\* a _hit call whose reissued request was answered 401 again, and returned it
C1_Witness ==
    /\ op.name = "_hit" /\ Ended
    /\ Len(recv) = 3
    /\ Is401(recv[1]) /\ Is401(recv[3])
    /\ outcome = Return(recv[3])

(***************************************************************************)
(* C2, as amended: after a token exchange of a _hit call returned token T, *)
(* the cached token is T and the reissued request carries "Bearer T"; every*)
(* operation's first request carries the token cached when it started; as  *)
(* long as an operation received no 401 it made no token exchange, kept    *)
(* the cached token and sent every request with it; and a _hit call        *)
(* replaces the cached token at most once: exactly once when its first     *)
(* response is 401 with a valid challenge and the token exchange succeeds, *)
(* not at all otherwise.                                                   *)
(***************************************************************************)
C2_TokenReusedAndReplacedAtMostOnce ==
    op.name # "none" =>
        /\ hit.assigned <= 1
        /\ hit.assigned = 1 <=>
              /\ Len(recv) >= hit.first + 1
              /\ Is401(recv[hit.first])
              /\ ValidChallenge(recv[hit.first])
              /\ TokenGranted(recv[hit.first + 1])
        /\ hit.assigned = 1 =>
              /\ auth_token = recv[hit.first + 1].body["token"]
              /\ Len(sent) = hit.first + 2
              /\ Carries(sent[hit.first + 2], auth_token)
        /\ IF token_at_call = None
           THEN "Authorization" \notin DOMAIN sent[1].headers
           ELSE Carries(sent[1], token_at_call)
        /\ (\A i \in DOMAIN recv : ~Is401(recv[i])) =>
              /\ Count(sent, IsTokenRequest) = 0
              /\ auth_token = token_at_call
              /\ token_at_call # None =>
                    \A i \in DOMAIN sent : Carries(sent[i], token_at_call)

\* a call that started with a cached token, met a 401 and replaced the token
C2_Witness ==
    /\ op.name = "_hit" /\ Ended
    /\ token_at_call # None
    /\ Is401(recv[1])
    /\ hit.assigned = 1
    /\ auth_token # token_at_call

\* C2 as stated: a later request that receives a 401 replaces the cached token
\* exactly once
C2_Original ==
    (op.name = "_hit" /\ Ended /\ token_at_call # None /\ Is401(recv[1])) =>
        hit.assigned = 1

(***************************************************************************)
(* get_manifest.                                                           *)
(***************************************************************************)
IsManifestGet(request) == request.method = "GET" /\ request.url.kind = "manifests"
IsRegistryRequest(request) == ~IsTokenRequest(request)

\* a response that passes the response-ok check (expected 200) with a parsed body
OkParsed(response) ==
    /\ response.status_code = 200
    /\ JsonBearing(response)
    /\ "errors" \notin DOMAIN response.body
SchemaVersionIs2(response) ==
    "schemaVersion" \in DOMAIN response.body /\ response.body["schemaVersion"] = 2
\* the body holds no list of manifests: the key is missing or its value is null
NoManifestsValue(response) ==
    "manifests" \in DOMAIN response.body => response.body["manifests"] = None
DigestHeader(response) == response.headers["Docker-Content-Digest"]

C5_Original ==
    (op.name = "get_manifest" /\ Ended /\ OkParsed(recv[1])
        /\ "manifests" \in DOMAIN recv[1].body) =>
        /\ outcome.kind = "return"
        /\ outcome.value = <<recv[1].body["manifests"], DigestHeader(recv[1]),
                             recv[1].text>>
        /\ Len(sent) = 1

(***************************************************************************)
(* The existence probes.                                                   *)
(***************************************************************************)
IsProbe == op.name \in {"is_manifest_already_uploaded", "is_blob_already_uploaded"}

HitAnswered == op.name # "none" /\ Len(recv) >= hit.first

\* a "Bearer " challenge that parses but lacks realm, service or scope
IncompleteChallenge(response) ==
    /\ "Www-Authenticate" \in DOMAIN response.headers
    /\ response.headers["Www-Authenticate"].scheme = "Bearer"
    /\ ~response.headers["Www-Authenticate"].bare
    /\ ~({"realm", "service", "scope"} \subseteq
            DOMAIN response.headers["Www-Authenticate"].params)

\* C7 as stated: a 401 whose Bearer challenge lacks realm, service or scope makes
\* the send fail with CommandError, without a token-exchange request
C7_Original ==
    (HitAnswered /\ Is401(recv[hit.first]) /\ IncompleteChallenge(recv[hit.first])) =>
        /\ Ended
        /\ outcome.kind = "raise"
        /\ outcome.exc = "CommandError"
        /\ Len(sent) = hit.first

\* the part of C7 the code keeps: the send fails and no token exchange is requested
C7_Witness ==
    /\ HitAnswered /\ Is401(recv[hit.first]) /\ IncompleteChallenge(recv[hit.first])
    /\ Ended
    /\ outcome.kind = "raise"
    /\ Len(sent) = hit.first

(***************************************************************************)
(* C8: a 401 whose response has no Www-Authenticate header, or whose header*)
(* does not start with "Bearer ", makes the send fail with the             *)
(* malformed-challenge CommandError; no token exchange is requested and    *)
(* the original request is not reissued.                                   *)
(***************************************************************************)
NoBearerChallenge(response) ==
    \/ "Www-Authenticate" \notin DOMAIN response.headers
    \/ response.headers["Www-Authenticate"].scheme # "Bearer"

C8_NoBearerIsMalformed ==
    (HitAnswered /\ Is401(recv[hit.first]) /\ NoBearerChallenge(recv[hit.first])) =>
        /\ Ended
        /\ outcome.kind = "raise"
        /\ outcome.exc = "CommandError"
        /\ outcome.msg.what = "Bad 401 response"
        /\ Len(sent) = hit.first
        /\ Len(recv) = hit.first
        /\ Count(sent, IsTokenRequest) = Count(SubSeq(sent, 1, hit.first - 1),
                                               IsTokenRequest)
        /\ hit.assigned = 0

\* a 401 with a Basic challenge ended the send
C8_Witness ==
    /\ HitAnswered /\ Is401(recv[hit.first])
    /\ "Www-Authenticate" \in DOMAIN recv[hit.first].headers
    /\ recv[hit.first].headers["Www-Authenticate"].scheme = "Basic"
    /\ Ended
    /\ outcome.kind = "raise"

\* the token exchange was answered
TokenAnswered ==
    /\ op.name # "none"
    /\ Len(recv) >= hit.first + 1
    /\ IsTokenRequest(sent[hit.first + 1])

\* a token-exchange answer that is status-ok but holds no token
StatusOkWithoutToken(response) ==
    /\ response.status_code = 200
    /\ \/ ~JsonBearing(response)
       \/ ("errors" \notin DOMAIN response.body /\ "token" \notin DOMAIN response.body)

\* C9 as stated: a status-ok token-exchange response without a "token" field makes
\* the send fail with CommandError, and the original request is not reissued
C9_Original ==
    (TokenAnswered /\ StatusOkWithoutToken(recv[hit.first + 1])) =>
        /\ Ended
        /\ outcome.kind = "raise"
        /\ outcome.exc = "CommandError"
        /\ Len(sent) = hit.first + 1

\* the part of C9 the code keeps: the send fails and the request is not reissued
C9_Witness ==
    /\ TokenAnswered /\ StatusOkWithoutToken(recv[hit.first + 1])
    /\ Ended
    /\ outcome.kind = "raise"
    /\ Len(sent) = hit.first + 1

(***************************************************************************)
(* assert_response_ok on its own: every response of ResponseShapes, checked *)
(* against every expected status the callers pass (200: lines 109, 214,    *)
(* 232; 201: line 203).                                                    *)
(***************************************************************************)
ContentTypes == JSON_RELATED_MIMETYPES
                \cup {"text/plain", "application/json; charset=utf-8", "absent"}
ExpectedStatuses == {200, 201}
ResponseShapes ==
    {[status_code |-> s, headers |-> Headers(ct, NoChallenge, p), body |-> b,
      text |-> TextOf(p)] :
        s \in Statuses, ct \in ContentTypes, b \in ManifestBodies \cup TokenBodies,
        p \in Payloads}

InitResponseOk ==
    /\ auth_token = None
    /\ auth_encoded_credentials = None
    /\ pc = "assert_response_ok"
    /\ op = NoOp
    /\ hit = NoHit
    /\ outcome = [kind |-> "none"]
    /\ sent = <<>>
    /\ recv = <<>>
    /\ token_at_call = None
    /\ arg \in {[response |-> r, expected_status |-> e] :
                    r \in ResponseShapes, e \in ExpectedStatuses}
    /\ ret = [kind |-> "none"]
    /\ extract = NoExtract
    /\ previous = {}
    /\ callers = NoCallers
    /\ events = <<>>

AssertResponseOk ==
    /\ pc = "assert_response_ok"
    /\ ret' = assert_response_ok(arg.response, arg.expected_status)
    /\ pc' = "returned"
    /\ UNCHANGED <<auth_token, auth_encoded_credentials, op, hit, outcome, sent, recv,
                   token_at_call, arg>>
    /\ UNCHANGED <<extract_vars, concurrent_vars>>

NextResponseOk == AssertResponseOk

SpecResponseOk == InitResponseOk /\ [][NextResponseOk]_vars

(***************************************************************************)
(* C10: for every actual status, expected status, content type and body,   *)
(* assert_response_ok raises the status-mismatch CommandError when the     *)
(* status differs from the expected one (carrying the body's "errors" when *)
(* the content type is JSON-bearing, None otherwise); returns no parsed    *)
(* body, without raising, when the status matches and the content type is  *)
(* not JSON-bearing; raises the server-errors CommandError when the status *)
(* matches and the JSON body has an "errors" key; returns the parsed body   *)
(* otherwise.                                                              *)
(***************************************************************************)
C10_ResponseOkOutcome ==
    pc = "returned" =>
        LET response == arg.response
            matches == response.status_code = arg.expected_status
            has_errors == "errors" \in DOMAIN response.body
        IN  /\ ~matches =>
                /\ ret.kind = "raise" /\ ret.exc = "CommandError"
                /\ ret.msg.what = "Wrong status code from server"
                /\ ret.msg.expected = arg.expected_status
                /\ ret.msg.got = response.status_code
                /\ ret.msg.errors = IF JsonBearing(response) /\ has_errors
                                    THEN response.body["errors"] ELSE None
            /\ (matches /\ ~JsonBearing(response)) =>
                /\ ret.kind = "return" /\ IsNone(ret.value)
            /\ (matches /\ JsonBearing(response) /\ has_errors) =>
                /\ ret.kind = "raise" /\ ret.exc = "CommandError"
                /\ ret.msg.what = "Response with errors from server"
                /\ ret.msg.errors = response.body["errors"]
            /\ (matches /\ JsonBearing(response) /\ ~has_errors) =>
                /\ ret.kind = "return" /\ ret.value = response.body

\* a matching status with a JSON-bearing content type and an "errors" key was checked
C10_Witness ==
    /\ pc = "returned"
    /\ arg.response.status_code = arg.expected_status
    /\ JsonBearing(arg.response)
    /\ "errors" \in DOMAIN arg.response.body
    /\ ret.kind = "raise"

(***************************************************************************)
(* upload_manifest.                                                        *)
(***************************************************************************)
IsPut(request) == request.method = "PUT"

(***************************************************************************)
(* C11: upload_manifest issues a PUT to manifests/<reference> with the v2  *)
(* manifest Content-Type and the encoded manifest, through one _hit call.  *)
(* It completes without error only when the response _hit returned has     *)
(* status 201 and, if JSON-bearing, no "errors" key.  Any other status     *)
(* (200 and 400 included) raises the status-mismatch error, which carries  *)
(* the "errors" value of a JSON-bearing body; a 201 whose JSON-bearing     *)
(* body has "errors" raises the server-errors error carrying them.  The    *)
(* PUT is issued once, or twice when the first is answered 401 with a      *)
(* valid challenge and the token exchange succeeds, and never more.        *)
(***************************************************************************)
C11_UploadManifestOutcome ==
    op.name = "upload_manifest" =>
        /\ IsPut(sent[1])
        /\ sent[1].url = get_url("manifests", op.reference)
        /\ sent[1].headers["Content-Type"] = MANIFEST_V2_MIMETYPE
        /\ sent[1].data = <<"utf8", ManifestData>>
        /\ op.sends = 1
        /\ Count(sent, IsPut) <= 2
        /\ Count(sent, IsPut) = 2 =>
              /\ Len(sent) = 3
              /\ Is401(recv[1]) /\ ValidChallenge(recv[1])
              /\ IsTokenRequest(sent[2]) /\ TokenGranted(recv[2])
              /\ sent[3].url = sent[1].url
              /\ sent[3].data = sent[1].data
              /\ sent[3].headers["Content-Type"] = MANIFEST_V2_MIMETYPE
        /\ (Ended /\ outcome.kind = "return") =>
              /\ outcome = Return(None)
              /\ Len(op.returned) = 1
              /\ op.returned[1].status_code = 201
              /\ JsonBearing(op.returned[1]) =>
                    "errors" \notin DOMAIN op.returned[1].body
        /\ (Ended /\ Len(op.returned) = 1) =>
              LET response == op.returned[1] IN
              /\ response = recv[Len(recv)]
              /\ response.status_code # 201 =>
                    /\ outcome.kind = "raise"
                    /\ outcome.exc = "CommandError"
                    /\ outcome.msg.what = "Wrong status code from server"
                    /\ outcome.msg.expected = 201
                    /\ outcome.msg.got = response.status_code
                    /\ (JsonBearing(response) /\ "errors" \in DOMAIN response.body) =>
                          outcome.msg.errors = response.body["errors"]
              /\ (response.status_code = 201 /\ JsonBearing(response)
                    /\ "errors" \in DOMAIN response.body) =>
                    /\ outcome.kind = "raise"
                    /\ outcome.exc = "CommandError"
                    /\ outcome.msg.what = "Response with errors from server"
                    /\ outcome.msg.errors = response.body["errors"]
              /\ (response.status_code = 201
                    /\ (JsonBearing(response) => "errors" \notin DOMAIN response.body)) =>
                    outcome = Return(None)

\* an upload answered 400 with an errors list failed with an error carrying the list
C11_Witness ==
    /\ op.name = "upload_manifest" /\ Ended
    /\ Len(recv) = 1
    /\ recv[1].status_code = 400
    /\ "errors" \in DOMAIN recv[1].body
    /\ outcome.kind = "raise"
    /\ outcome.msg.errors = recv[1].body["errors"]

(***************************************************************************)
(* get_destination_url.  op.returned[1] is the response the probe's _hit   *)
(* call returned, the later ones are those get_manifest's calls returned.  *)
(***************************************************************************)
IsHead(request) == request.method = "HEAD"
ProbeReported == op.name = "get_destination_url" /\ Len(op.returned) >= 1
NotFoundError(reference) ==
    Raise("CommandError",
          [what |-> "image does not exist in the destination registry",
           reference |-> reference])

(***************************************************************************)
(* C12: get_destination_url(reference) issues the HEAD existence probe on  *)
(* manifests/<reference> before any manifest GET (no GET goes out before   *)
(* the probe has reported, no HEAD after a GET).  When the probe reports   *)
(* the manifest absent (its response has any status but 200) the operation *)
(* fails with the not-found error naming the reference, without a manifest *)
(* GET.  When the probe reports it present, get_manifest is run, and when  *)
(* it returns, the operation returns get_fully_qualified_url of the digest *)
(* get_manifest returned; when it raises, so does the operation.           *)
(***************************************************************************)
C12_ProbeThenResolve ==
    op.name = "get_destination_url" =>
        /\ IsHead(sent[1])
        /\ sent[1].url = get_url("manifests", op.reference)
        /\ \A i \in DOMAIN sent :
              IsManifestGet(sent[i]) =>
                 /\ ProbeReported
                 /\ op.returned[1].status_code = 200
                 /\ \A j \in DOMAIN sent : IsHead(sent[j]) => j < i
        /\ (ProbeReported /\ op.returned[1].status_code # 200) =>
              /\ Ended
              /\ outcome = NotFoundError(op.reference)
              /\ Count(sent, IsManifestGet) = 0
              /\ op.sends = 1
        /\ (ProbeReported /\ op.returned[1].status_code = 200) =>
              /\ op.sends \in {2, 3}
              /\ Count(sent, IsManifestGet) >= 1
              /\ \A i \in DOMAIN sent :
                    IsManifestGet(sent[i]) =>
                        sent[i].url = get_url("manifests", op.reference)
              /\ (Ended /\ Len(op.returned) = op.sends) =>
                    LET manifest ==
                            IF op.sends = 2
                            THEN get_manifest_first(op.reference, op.returned[2])
                            ELSE get_manifest_second(op.reference,
                                                     DigestHeader(op.returned[2]),
                                                     op.returned[3])
                    IN  IF manifest.kind = "return"
                        THEN /\ outcome =
                                    Return(get_fully_qualified_url(manifest.value[2]))
                             /\ outcome.value =
                                    <<Server.netloc, ImageName,
                                      DigestHeader(Last(op.returned))>>
                        ELSE outcome = manifest

\* the probe found the manifest, get_manifest renegotiated the v2 manifest, and the
\* URL names the digest of the renegotiated one
C12_Witness ==
    /\ op.name = "get_destination_url" /\ Ended
    /\ Len(op.returned) = 3
    /\ outcome.kind = "return"
    /\ outcome.value = get_fully_qualified_url(DigestHeader(op.returned[3]))
    /\ DigestHeader(op.returned[3]) # DigestHeader(op.returned[2])

(***************************************************************************)
(* The streaming side: HashingTemporaryFile (lines 243-262) and            *)
(* ImageHandler._extract_file (lines 289-320).                             *)
(*                                                                         *)
(* A byte is a small integer and a byte string a sequence of them.  The    *)
(* archive reader, hashlib, zlib and gzip are the environment.  sha256 is  *)
(* taken collision-free: the hasher holds the bytes fed to it, in order,   *)
(* and two digests are equal exactly when those are.  The gzip stream of a *)
(* content is a header naming the file and its time, the deflated bytes,   *)
(* an end-of-stream mark and a trailer of checksum and size.               *)
(***************************************************************************)
ByteValues == {0, 1}
ByteStrings(n) == UNION {[1..k -> ByteValues] : k \in 0..n}
Contents == ByteStrings(MaxLen)

\* entry names are (directory, basename); os.path.basename (line 303)
Names == {<<"", "layer.tar">>, <<"rootfs", "layer.tar">>, <<"rootfs", "config.json">>}
basename(name) == name[2]
\* modification times of entries, and what time.time() can return
Mtimes == {1, 2}
Times == {2, 3}

\* an archive with one entry: extractfile(name) reads its content, getmember(name)
\* has its mtime (lines 292-293)
Archives ==
    {[n \in {name} |-> [content |-> content, mtime |-> mtime]] :
        name \in Names, content \in Contents, mtime \in Mtimes}

\* hashlib.sha256(), hasher.update(data), hasher.hexdigest() (lines 251, 256, 261)
sha256 == <<>>
update(hasher, data) == hasher \o data
hexdigest(hasher) == [sha256 |-> hasher]

\* zlib and the gzip format, as gzip.GzipFile (line 300) uses them
Deflate(data) == [i \in 1..Len(data) |-> 10 + data[i]]
EndOfStream == <<19>>
NameCode(filename) == IF filename = "layer.tar" THEN 21 ELSE 22
gzip_header(filename, mtime) == <<NameCode(filename), 40 + mtime>>
RECURSIVE crc32(_)
crc32(data) ==
    IF data = <<>> THEN 1000
    ELSE 1000 + 2 * (crc32(SubSeq(data, 1, Len(data) - 1)) - 1000) + data[Len(data)] + 1
gzip_trailer(data) == <<crc32(data), 100 + Len(data)>>

\* HashingTemporaryFile.__init__ (lines 246-251).  file_handler is the handle of
\* tempfile.NamedTemporaryFile, which the stream neither writes to nor closes; the
\* stream itself is a second handle on the same file, opened by io.FileIO
HashingTemporaryFile ==
    [name |-> "tmpfile", file_handler |-> "not closed", closed |-> FALSE,
     total_length |-> 0, hasher |-> sha256, stored |-> <<>>]

\* a call on the Digest Stream (on = "file"), the compressor ("gzip") or the caller
\* reading the results ("result"), as logged in e.calls
CallOn(on, call, data) == [on |-> on, call |-> call, data |-> data]

\* HashingTemporaryFile.write (lines 258-262) on the stream of extraction e; the
\* write of io.FileIO raises on a closed file, and when the storage fails (~ok)
\* faulty variant: only what was persisted is counted and hashed
write_counts_persisted_only(e, data, ok) ==
    LET f == e.hashing_temp_file
        counted == [f EXCEPT !.total_length = @ + Len(data),
                             !.hasher = update(@, data),
                             !.stored = @ \o data]
        logged == Append(e.calls, CallOn("file", "write", data))
    IN  IF f.closed
        THEN [e EXCEPT !.calls = logged, !.exc = "ValueError"]
        ELSE IF ~ok
        THEN [e EXCEPT !.calls = logged, !.exc = "OSError"]
        ELSE [e EXCEPT !.hashing_temp_file = counted, !.calls = logged]

write(e, data, ok) ==
    LET f == e.hashing_temp_file
        counted == [f EXCEPT !.total_length = @ + Len(data),
                             !.hasher = update(@, data)]
        logged == Append(e.calls, CallOn("file", "write", data))
    IN  IF f.closed
        THEN [e EXCEPT !.hashing_temp_file = counted, !.calls = logged,
                       !.exc = "ValueError"]
        ELSE IF ~ok
        THEN [e EXCEPT !.hashing_temp_file = counted, !.calls = logged,
                       !.exc = "OSError"]
        ELSE [e EXCEPT !.hashing_temp_file = [counted EXCEPT !.stored = @ \o data],
                       !.calls = logged]

\* io.FileIO.close on the stream (line 317, and line 315 when not compressing)
close(e) ==
    [e EXCEPT !.hashing_temp_file.closed = TRUE,
              !.calls = Append(@, CallOn("file", "close", <<>>))]

\* gzip.GzipFile(fileobj=hashing_temp_file, mode="wb", filename, mtime): the header
\* is written to the stream at once
NotCompressing == [kind |-> "file", closed |-> FALSE, pending |-> <<>>,
                   crc |-> <<>>, size |-> 0]
GzipFile(e, filename, mtime, ok) ==
    write([e EXCEPT !.dst_filehandler = [NotCompressing EXCEPT !.kind = "gzip"]],
          gzip_header(filename, mtime), ok)

\* GzipFile.write: the compressor takes the data and hands out what it held back,
\* which is written to the stream; then size and checksum are updated
GzipFile_write(e, data, ok) ==
    LET gz == e.dst_filehandler
        w == write([e EXCEPT !.dst_filehandler.pending = data],
                   Deflate(gz.pending), ok)
    IN  IF gz.closed THEN [e EXCEPT !.exc = "ValueError"]
        ELSE IF w.exc # None THEN w
        ELSE [w EXCEPT !.dst_filehandler.crc = @ \o data,
                       !.dst_filehandler.size = @ + Len(data)]

\* GzipFile.close: the compressor is flushed to the stream, then the trailer is
\* written; the stream itself is left open
GzipFile_close(e, ok) ==
    LET gz == e.dst_filehandler
        closed == [e EXCEPT !.dst_filehandler.closed = TRUE,
                            !.calls = Append(@, CallOn("gzip", "close", <<>>))]
        flushed == write(closed, Deflate(gz.pending) \o EndOfStream, ok)
        checksum == write(flushed, <<crc32(gz.crc)>>, TRUE)
    IN  IF gz.closed THEN e
        ELSE IF flushed.exc # None THEN flushed
        ELSE write(checksum, <<100 + gz.size>>, TRUE)

\* _extract_file up to its loop (lines 292-307)
\* faulty variant: the compressor is not given the entry's mtime, and takes the
\* time of the day
open_destination_without_mtime(e, ok) ==
    IF e.compress THEN GzipFile(e, basename(e.name), e.now, ok) ELSE e

open_destination(e, ok) ==
    IF e.compress THEN GzipFile(e, basename(e.name), e.mtime, ok) ELSE e

\* one turn of the loop (lines 309-313): read(CHUNK_SIZE) hands out the next size
\* bytes of the source (none at its end) or fails, and the chunk is written
\* faulty variant: a chunk shorter than CHUNK_SIZE ends the loop
copy_chunk_stops_at_short_read(e, size, fault) ==
    LET src == e.src_filehandler
        chunk == SubSeq(e.content, src.pos + 1, src.pos + size)
        read == [e EXCEPT !.src_filehandler.pos = @ + size]
    IN  IF fault = "read" THEN [e EXCEPT !.exc = "OSError", !.loop = "left"]
        ELSE IF size < CHUNK_SIZE THEN [read EXCEPT !.loop = "left"]
        ELSE LET written == IF e.compress
                            THEN GzipFile_write(read, chunk, fault # "write")
                            ELSE write(read, chunk, fault # "write")
             IN  IF written.exc # None THEN [written EXCEPT !.loop = "left"]
                 ELSE written

copy_chunk(e, size, fault) ==
    LET src == e.src_filehandler
        chunk == SubSeq(e.content, src.pos + 1, src.pos + size)
        read == [e EXCEPT !.src_filehandler.pos = @ + size]
    IN  IF fault = "read" THEN [e EXCEPT !.exc = "OSError", !.loop = "left"]
        ELSE IF chunk = <<>> THEN [read EXCEPT !.loop = "left"]
        ELSE LET written == IF e.compress
                            THEN GzipFile_write(read, chunk, fault # "write")
                            ELSE write(read, chunk, fault # "write")
             IN  IF written.exc # None THEN [written EXCEPT !.loop = "left"]
                 ELSE written

\* the finally clause (lines 314-317); e.exc is what the closes raised, if anything
\* faulty variant: the stream is closed before the compressor
finally_closes_stream_first(e, ok) ==
    LET closed == close(e)
    IN  IF e.compress THEN GzipFile_close(closed, ok) ELSE close(closed)

finally(e, ok) ==
    LET closed == IF e.compress THEN GzipFile_close(e, ok) ELSE close(e)
    IN  IF closed.exc # None THEN closed ELSE close(closed)

\* lines 319-320
extract_file_result(e) ==
    <<e.hashing_temp_file.name, e.hashing_temp_file.total_length,
      <<"sha256:", hexdigest(e.hashing_temp_file.hasher)>>>>

(***************************************************************************)
(* Extractions, one after the other.                                       *)
(*   pc = "idle"     no extraction runs                                    *)
(*   pc = "copy"     in the loop of lines 309-313                          *)
(*   pc = "finally"  the loop was left, by break or by an exception        *)
(*   pc = "ended"    the extraction returned or raised; extract holds its  *)
(*                   locals as they were left, outcome what the caller got *)
(***************************************************************************)
Extracting == "content" \in DOMAIN extract

ExtractEnded == pc = "ended" /\ Extracting
ExtractReturned == ExtractEnded /\ outcome.kind = "return"

\* two entries with the same content bytes, the same basename and the same mtime
SameEntry(e1, e2) ==
    /\ e1.content = e2.content
    /\ basename(e1.name) = basename(e2.name)
    /\ e1.mtime = e2.mtime

\* what a compressing extraction that returned leaves to compare the next one of
\* the same entry with
Returned(e, o) ==
    [name |-> e.name, content |-> e.content, mtime |-> e.mtime, now |-> e.now,
     total_length |-> o.value[2], digest |-> o.value[3]]

InitExtract ==
    /\ auth_token = None
    /\ auth_encoded_credentials = None
    /\ pc = "idle"
    /\ op = NoOp
    /\ hit = NoHit
    /\ outcome = [kind |-> "none"]
    /\ sent = <<>>
    /\ recv = <<>>
    /\ token_at_call = None
    /\ arg = None
    /\ ret = None
    /\ extract = NoExtract
    /\ previous = {}
    /\ callers = NoCallers
    /\ events = <<>>

\* _extract_file(image_tar, name, compress) is called (lines 289-307)
ExtractFile ==
    /\ pc = "idle"
    /\ \E image_tar \in Archives, compress \in BOOLEAN, now \in Times,
          ok \in BOOLEAN :
        \E name \in DOMAIN image_tar :
            LET e == [name |-> name, compress |-> compress,
                      content |-> image_tar[name].content,
                      mtime |-> image_tar[name].mtime,
                      now |-> now,
                      src_filehandler |-> [pos |-> 0, closed |-> FALSE],
                      hashing_temp_file |-> HashingTemporaryFile,
                      dst_filehandler |-> NotCompressing,
                      loop |-> "running", calls |-> <<>>, exc |-> None]
                opened == open_destination(e, ok)
            IN  /\ ~compress => ok
                /\ extract' = opened
                /\ previous' = {p \in previous : compress /\ SameEntry(p, e)}
                /\ IF opened.exc # None
                   THEN /\ pc' = "ended"
                        /\ outcome' = Raise(opened.exc, "line 300")
                   ELSE /\ pc' = "copy"
                        /\ outcome' = [kind |-> "running"]
    /\ UNCHANGED <<registry_vars, concurrent_vars>>

\* one turn of the loop
CopyChunk ==
    /\ pc = "copy"
    /\ LET left == Len(extract.content) - extract.src_filehandler.pos
           sizes == IF left = 0 THEN {0}
                    ELSE 1..(IF left < CHUNK_SIZE THEN left ELSE CHUNK_SIZE)
       IN  \E size \in sizes, fault \in {"none", "read", "write"} :
              /\ fault = "write" => size > 0
              /\ extract' = copy_chunk(extract, size, fault)
    /\ pc' = IF extract'.loop = "left" THEN "finally" ELSE "copy"
    /\ UNCHANGED <<registry_vars, concurrent_vars, previous, outcome>>

\* the finally clause, then the exception on its way or the return (lines 314-320);
\* src_filehandler is not closed by the code: after a return it is closed when the
\* interpreter finalizes the dropped local at once (finalized), and open otherwise;
\* an exception on its way keeps the frame and its locals
Finally ==
    /\ pc = "finally"
    /\ \E ok \in BOOLEAN, finalized \in BOOLEAN :
        LET closed == finally([extract EXCEPT !.exc = None], ok)
            exc == IF closed.exc # None THEN closed.exc ELSE extract.exc
        IN  /\ ~extract.compress => ok
            /\ exc # None => ~finalized
            /\ IF exc # None
               THEN /\ extract' = [closed EXCEPT !.exc = exc]
                    /\ outcome' = Raise(exc, "line 310-317")
               ELSE /\ extract' =
                        [closed EXCEPT !.src_filehandler.closed = finalized,
                                       !.calls = Append(@, CallOn("result", "read", <<>>))]
                    /\ outcome' = Return(extract_file_result(closed))
    /\ pc' = "ended"
    /\ UNCHANGED <<registry_vars, concurrent_vars, previous>>

\* the caller has the result or the exception, and the locals of the call are gone
ExtractFileEnds ==
    /\ pc = "ended"
    /\ pc' = "idle"
    /\ extract' = NoExtract
    /\ previous' = IF extract.compress /\ outcome.kind = "return"
                   THEN {Returned(extract, outcome)}
                   ELSE {}
    /\ UNCHANGED <<registry_vars, concurrent_vars, outcome>>

NextExtract ==
    \/ ExtractFile
    \/ CopyChunk
    \/ Finally
    \/ ExtractFileEnds

SpecExtract == InitExtract /\ [][NextExtract]_vars

(***************************************************************************)
(* What the claims on the extraction speak of.                             *)
(***************************************************************************)
\* the whole gzip stream of a content, for the file name and time in its header
GzipStream(content, filename, mtime) ==
    gzip_header(filename, mtime) \o Deflate(content) \o EndOfStream
        \o gzip_trailer(content)

\* "sha256:" and the hex digest of a byte string hashed in one piece
Sha256Digest(bytes) == <<"sha256:", hexdigest(update(sha256, bytes))>>

IsCall(c, on, call) == c.on = on /\ c.call = call
\* the chunks passed to the Digest Stream's write, in call order
Passed(calls) == SelectSeq(calls, LAMBDA c : IsCall(c, "file", "write"))
RECURSIVE Concat(_)
Concat(chunks) ==
    IF chunks = <<>> THEN <<>>
    ELSE Concat(SubSeq(chunks, 1, Len(chunks) - 1)) \o chunks[Len(chunks)].data
RECURSIVE SumLen(_)
SumLen(chunks) ==
    IF chunks = <<>> THEN 0
    ELSE SumLen(SubSeq(chunks, 1, Len(chunks) - 1)) + Len(chunks[Len(chunks)].data)

(***************************************************************************)
(* C13: two extractions with compress=true of entries with the same        *)
(* content bytes, the same basename and the same modification time return  *)
(* the same digest and the same total length, whatever the time of the day *)
(* at each, the directory of the entry name, the way the source was read   *)
(* in chunks, and what earlier extractions left behind: both are those of  *)
(* the gzip stream of the content under that basename and mtime.           *)
(***************************************************************************)
C13_SameEntrySameDigest ==
    (ExtractReturned /\ extract.compress) =>
        /\ \A p \in previous :
              /\ SameEntry(p, extract)
              /\ p.digest = outcome.value[3]
              /\ p.total_length = outcome.value[2]
        /\ LET stream == GzipStream(extract.content, basename(extract.name),
                                    extract.mtime)
           IN  /\ outcome.value[3] = Sha256Digest(stream)
               /\ outcome.value[2] = Len(stream)

\* the same entry was extracted twice, under another directory and at another time
C13_Witness ==
    /\ ExtractReturned /\ extract.compress
    /\ \E p \in previous :
          /\ p.name # extract.name
          /\ p.now # extract.now
          /\ p.digest = outcome.value[3]
    /\ Len(extract.content) > CHUNK_SIZE

(***************************************************************************)
(* C14: for every entry content, the empty one included, and every way the *)
(* source hands it out in chunks, _extract_file with compress=false        *)
(* returns the number of content bytes as total length and "sha256:" with  *)
(* the SHA-256 hex digest of the whole content, in its order, as digest.   *)
(***************************************************************************)
C14_PlainDigestAndLength ==
    (ExtractReturned /\ ~extract.compress) =>
        /\ outcome.value[1] = extract.hashing_temp_file.name
        /\ outcome.value[2] = Len(extract.content)
        /\ outcome.value[3] = Sha256Digest(extract.content)
        /\ extract.hashing_temp_file.stored = extract.content

\* a content longer than a chunk was handed out in a short chunk first
C14_Witness ==
    /\ ExtractReturned /\ ~extract.compress
    /\ Len(extract.content) > CHUNK_SIZE
    /\ Len(extract.calls[1].data) < CHUNK_SIZE
    /\ extract.content[1] # extract.content[Len(extract.content)]
    /\ outcome.value[2] = Len(extract.content)

\* C15 as stated: when an extraction ends, by return or by any error, the
\* backing-storage handle and the source-read handle have both been closed
C15_Original ==
    ExtractEnded =>
        /\ extract.hashing_temp_file.closed
        /\ extract.src_filehandler.closed

\* the part of C15 the code keeps: after a failing read the finally clause has
\* closed the compressor and the Digest Stream
C15_Witness ==
    /\ ExtractEnded /\ extract.compress
    /\ outcome.kind = "raise"
    /\ extract.loop = "left"
    /\ extract.dst_filehandler.closed
    /\ extract.hashing_temp_file.closed

(***************************************************************************)
(* C16: in every state of a Digest Stream, whatever calls of write it got, *)
(* failed ones included, its byte counter is the sum of the lengths of the *)
(* chunks passed to write and its hasher holds their concatenation in call *)
(* order.  With the compressor in front the chunks are compressed bytes:   *)
(* none is a byte of the content, and after a return they add up to the    *)
(* gzip stream of it.                                                      *)
(***************************************************************************)
C16_CounterAndHashFollowWrites ==
    Extracting =>
        LET f == extract.hashing_temp_file
            passed == Passed(extract.calls)
        IN  /\ f.total_length = SumLen(passed)
            /\ f.hasher = Concat(passed)
            /\ f.total_length = Len(f.hasher)
            /\ extract.compress =>
                  /\ \A i \in DOMAIN f.hasher : f.hasher[i] \notin ByteValues
                  /\ ExtractReturned =>
                        f.hasher = GzipStream(extract.content, basename(extract.name),
                                              extract.mtime)
            /\ ~extract.compress =>
                  f.hasher = SubSeq(extract.content, 1, Len(f.hasher))

\* a write of compressed bytes failed at the storage, and is counted and hashed
C16_Witness ==
    /\ Extracting /\ extract.compress
    /\ extract.exc = "OSError"
    /\ Len(Passed(extract.calls)) >= 2
    /\ extract.hashing_temp_file.total_length
          > Len(extract.hashing_temp_file.stored)

(***************************************************************************)
(* C17: in an extraction with compress=true the compressor is closed       *)
(* before the Digest Stream, on the normal path and when the loop was left *)
(* by an exception; the Digest Stream gets no write after its close; and   *)
(* the length and digest are read after both closes, so that they cover    *)
(* the compressor's flushed bytes and trailer.                             *)
(***************************************************************************)
C17_CompressorClosedFirst ==
    (Extracting /\ extract.compress) =>
        LET calls == extract.calls
            closes == {i \in DOMAIN calls : IsCall(calls[i], "file", "close")}
            gzip_closes == {i \in DOMAIN calls : IsCall(calls[i], "gzip", "close")}
            reads == {i \in DOMAIN calls : calls[i].on = "result"}
        IN  /\ \A i \in closes : \E j \in gzip_closes : j < i
            /\ \A i \in closes : \A j \in gzip_closes : j < i
            /\ \A i \in closes : \A j \in DOMAIN calls :
                  IsCall(calls[j], "file", "write") => j < i
            /\ \A i \in reads :
                  /\ i = Len(calls)
                  /\ closes # {} /\ gzip_closes # {}
            /\ (ExtractEnded /\ extract.loop = "left") =>
                  /\ gzip_closes # {}
                  /\ extract.dst_filehandler.closed
            /\ extract.hashing_temp_file.closed => extract.dst_filehandler.closed
            /\ ExtractReturned =>
                  LET f == extract.hashing_temp_file
                      trailer == gzip_trailer(extract.content)
                  IN  /\ reads # {}
                      /\ outcome.value[2] = f.total_length
                      /\ outcome.value[3] = <<"sha256:", hexdigest(f.hasher)>>
                      /\ SubSeq(f.hasher, Len(f.hasher) - Len(trailer) + 1,
                                Len(f.hasher)) = trailer
                      /\ f.stored = f.hasher

\* the source failed in the loop, and the finally clause closed the compressor,
\* which wrote its trailer, and then the Digest Stream
C17_Witness ==
    /\ ExtractEnded /\ extract.compress
    /\ outcome.kind = "raise"
    /\ extract.src_filehandler.pos > 0
    /\ extract.hashing_temp_file.closed
    /\ \E i \in DOMAIN extract.calls :
          /\ IsCall(extract.calls[i], "gzip", "close")
          /\ i + 4 = Len(extract.calls)
          /\ IsCall(extract.calls[Len(extract.calls)], "file", "close")

(***************************************************************************)
(* Two callers on one client.  Nothing in _hit (lines 125-146) or          *)
(* _authenticate (lines 99-111) is synchronized, so the calls interleave   *)
(* at every access to self.auth_token and at every request.  A caller's    *)
(* _hit call goes through                                                  *)
(*   "start"    called, nothing done yet                                   *)
(*   "send"     the cached token was read into the headers (lines 130-131) *)
(*   "request"  the request is out (line 133)                              *)
(*   "token"    a 401 was received and the token exchange is out (line 107)*)
(*   "store"    _authenticate returned the token (line 111)                *)
(*   "reread"   the token was stored in self.auth_token (line 142)         *)
(*   "resend"   self.auth_token was read into the headers (line 143)       *)
(*   "retry"    the request is out again (line 144)                        *)
(*   "done"     the response was returned (line 146);  "raised" otherwise  *)
(***************************************************************************)
Callers == {"caller1", "caller2"}

\* the token a request's headers carry, None without an Authorization header
CarriedToken(headers) ==
    IF "Authorization" \in DOMAIN headers THEN headers["Authorization"][2] ELSE None

\* what a caller did: the auth server issued it a token, it stored one in
\* self.auth_token, or it sent a request with the token its headers carry
Event(what, caller, token) == [what |-> what, caller |-> caller, token |-> token]

\* line 142: the assignment to self.auth_token, whatever is cached
\* faulty variant: a token another caller cached meanwhile is kept
store_token_keeps_cached(cached, token) == IF cached # None THEN cached ELSE token

store_token(cached, token) == token

\* line 143: the Authorization header is set from self.auth_token
reissue_headers(headers, cached) == SetHeader(headers, "Authorization", Bearer(cached))

\* what the registry answers to the callers: the 401s, and one plain success
ConcurrentAnswers ==
    Unauthorized
    \cup {[status_code |-> 200, headers |-> Headers("text/plain", NoChallenge, 1),
           body |-> NoBody, text |-> TextOf(1)]}

InitConcurrent ==
    /\ auth_token = None
    /\ auth_encoded_credentials = None
    /\ pc = "concurrent"
    /\ op = NoOp
    /\ hit = NoHit
    /\ outcome = [kind |-> "none"]
    /\ sent = <<>>
    /\ recv = <<>>
    /\ token_at_call = None
    /\ arg = None
    /\ ret = None
    /\ extract = NoExtract
    /\ previous = {}
    /\ callers = [c \in Callers |->
                    [pc |-> "start", headers |-> NoHeaders, token |-> None]]
    /\ events = <<>>

Unshared == <<auth_encoded_credentials, pc, op, hit, outcome, sent, recv,
              token_at_call, arg, ret, extract_vars>>

\* lines 127-131: the headers are built from the cached token
ReadToken(c) ==
    /\ callers[c].pc = "start"
    /\ LET h == op_start("_hit", RefNames[1], ManifestData)
           request == hit_request(auth_token, h.method, h.url, h.headers, h.data)
       IN  callers' = [callers EXCEPT ![c].pc = "send",
                                      ![c].headers = request.headers]
    /\ UNCHANGED <<auth_token, events, Unshared>>

\* lines 133 and 144: the request goes out with the headers as they are
SendRequest(c) ==
    /\ callers[c].pc \in {"send", "resend"}
    /\ callers' = [callers EXCEPT ![c].pc = IF @ = "send" THEN "request" ELSE "retry"]
    /\ events' = Append(events, Event("sent", c, CarriedToken(callers[c].headers)))
    /\ UNCHANGED <<auth_token, Unshared>>

\* lines 134-141 and 101-107: the first response arrives
ConcurrentResponse(c) ==
    /\ callers[c].pc = "request"
    /\ \E response \in ConcurrentAnswers :
        LET h == hit_on_response(auth_encoded_credentials, response)
        IN  callers' = [callers EXCEPT ![c].pc =
                            CASE h.kind = "return" -> "done"
                              [] h.kind = "raise" -> "raised"
                              [] h.kind = "authenticate" -> "token"]
    /\ UNCHANGED <<auth_token, events, Unshared>>

\* lines 109-111: the auth server's answer arrives
ConcurrentToken(c) ==
    /\ callers[c].pc = "token"
    /\ \E response \in TokenAnswers :
        LET token == authenticate_result(response)
        IN  IF Raised(token)
            THEN /\ callers' = [callers EXCEPT ![c].pc = "raised"]
                 /\ UNCHANGED events
            ELSE /\ callers' = [callers EXCEPT ![c].pc = "store",
                                               ![c].token = token.value]
                 /\ events' = Append(events, Event("issued", c, token.value))
    /\ UNCHANGED <<auth_token, Unshared>>

\* line 142
StoreToken(c) ==
    /\ callers[c].pc = "store"
    /\ auth_token' = store_token(auth_token, callers[c].token)
    /\ callers' = [callers EXCEPT ![c].pc = "reread"]
    /\ events' = Append(events, Event("stored", c, auth_token'))
    /\ UNCHANGED Unshared

\* line 143
ReadNewToken(c) ==
    /\ callers[c].pc = "reread"
    /\ callers' = [callers EXCEPT ![c].pc = "resend",
                                  ![c].headers = reissue_headers(@, auth_token)]
    /\ UNCHANGED <<auth_token, events, Unshared>>

\* line 146: the answer to the reissued request arrives and is returned
ConcurrentRetry(c) ==
    /\ callers[c].pc = "retry"
    /\ \E response \in ConcurrentAnswers :
        callers' = [callers EXCEPT ![c].pc = "done"]
    /\ UNCHANGED <<auth_token, events, Unshared>>

NextConcurrent ==
    \E c \in Callers :
        \/ ReadToken(c)
        \/ SendRequest(c)
        \/ ConcurrentResponse(c)
        \/ ConcurrentToken(c)
        \/ StoreToken(c)
        \/ ReadNewToken(c)
        \/ ConcurrentRetry(c)

SpecConcurrent == InitConcurrent /\ [][NextConcurrent]_vars

\* the places in events of what happened
EventsOf(what) == {i \in DOMAIN events : events[i].what = what}
\* caller c got past the 401: its token exchange succeeded
Exchanged(c) == callers[c].pc \in {"store", "reread", "resend", "retry"}
                \/ (callers[c].pc = "done" /\ callers[c].token # None)

(***************************************************************************)
(* C18: two callers on one client whose requests are both answered 401     *)
(* each make a token exchange of their own and each overwrite the cached   *)
(* token: the cached token is the one stored last, whatever the order in   *)
(* which the tokens were issued; a request carries the token that was      *)
(* cached when its headers were set, whatever is cached when it is sent.   *)
(* So a state is reachable where the cached token is the one issued        *)
(* earlier, the later-issued one being lost, and where a request was sent  *)
(* with a token that another caller had already replaced (C18_Witness).    *)
(***************************************************************************)
C18_CachedTokenRaces ==
    Callers \subseteq DOMAIN callers =>
        /\ auth_token = IF EventsOf("stored") = {} THEN None
                        ELSE events[CHOOSE i \in EventsOf("stored") :
                                        \A j \in EventsOf("stored") : j <= i].token
        /\ \A c \in Callers :
              LET issued == {i \in EventsOf("issued") : events[i].caller = c}
                  stored == {i \in EventsOf("stored") : events[i].caller = c}
              IN  /\ Cardinality(issued) <= 1
                  /\ Cardinality(stored) <= 1
                  /\ Exchanged(c) <=> issued # {}
                  /\ \A i \in stored :
                        /\ events[i].token = callers[c].token
                        /\ \E j \in issued : j < i /\ events[j].token = events[i].token
                  /\ callers[c].pc \in {"reread", "resend", "retry"} => stored # {}
        /\ \A i \in EventsOf("sent") :
              events[i].token # None =>
                  \E j \in EventsOf("stored") : j < i /\ events[j].token = events[i].token

\* both callers were answered 401; the token issued first was stored last and stays
\* cached, the token issued later is lost; and a request went out with a token that
\* the other caller had replaced before
C18_Witness ==
    /\ Callers \subseteq DOMAIN callers
    /\ \A c \in Callers : callers[c].pc \in {"retry", "done"} /\ callers[c].token # None
    /\ \E i, j \in EventsOf("issued") :
          /\ i < j
          /\ events[i].token # events[j].token
          /\ auth_token = events[i].token
          /\ \E k \in EventsOf("stored") : events[k].token = events[j].token
    /\ \E i \in EventsOf("sent"), j, k \in EventsOf("stored") :
          /\ k < j /\ j < i
          /\ events[k].token = events[i].token
          /\ events[j].token # events[i].token
          /\ events[j].caller # events[i].caller

(***************************************************************************)
(* The cached token across the operations of a client (Spec).              *)
(***************************************************************************)
\* the token exchanges of the running (or last) operation that succeeded
GrantedExchanges ==
    {i \in DOMAIN recv : IsTokenRequest(sent[i]) /\ TokenGranted(recv[i])}

(***************************************************************************)
(* C19: the cached token changes only at a successful token exchange.      *)
(* During and after every operation it is the token of the operation's     *)
(* last successful exchange, or the one cached when the operation started  *)
(* if it had none: a _hit call whose first response is not 401, one that   *)
(* fails on a malformed challenge and one whose token exchange fails leave *)
(* it as it was, and a token obtained stays cached when the reissued       *)
(* request or the operation's response check fails.                        *)
(***************************************************************************)
C19_TokenChangesOnlyAtExchange ==
    op.name # "none" =>
        /\ auth_token =
              IF GrantedExchanges = {} THEN token_at_call
              ELSE recv[CHOOSE i \in GrantedExchanges :
                            \A j \in GrantedExchanges : j <= i].body["token"]
        /\ Cardinality(GrantedExchanges) =
              Cardinality({i \in DOMAIN sent : i > 1 /\ IsTokenRequest(sent[i - 1])
                                               /\ IsRegistryRequest(sent[i])})
        /\ Len(recv) >= hit.first =>
              /\ ~Is401(recv[hit.first]) => hit.assigned = 0
              /\ (Is401(recv[hit.first]) /\ ~ValidChallenge(recv[hit.first])) =>
                    /\ hit.assigned = 0
                    /\ Ended /\ outcome.kind = "raise"
        /\ (Len(recv) >= hit.first + 1 /\ ~TokenGranted(recv[hit.first + 1])) =>
              /\ hit.assigned = 0
              /\ Ended /\ outcome.kind = "raise"
        /\ (op.sends = 1 /\ hit.assigned = 0) => auth_token = token_at_call

\* an upload re-authenticated, the reissued PUT failed the response check, and the
\* new token is cached in place of the one the upload started with
C19_Witness ==
    /\ op.name = "upload_manifest" /\ Ended
    /\ outcome.kind = "raise"
    /\ Len(recv) = 3
    /\ token_at_call # None
    /\ auth_token # token_at_call
    /\ auth_token = recv[2].body["token"]

(***************************************************************************)
(* C20: whenever get_manifest returns, the digest and the raw text of its  *)
(* result are those of one and the same response: of the response its     *)
(* first _hit call returned when that is a manifest list or a schema-2     *)
(* manifest, of the response its second _hit call returned after a v2     *)
(* renegotiation.                                                          *)
(***************************************************************************)
C20_DigestAndTextOfOneResponse ==
    (op.name = "get_manifest" /\ Ended /\ outcome.kind = "return") =>
        LET from == Last(op.returned) IN
        /\ Len(op.returned) = op.sends
        /\ outcome.value[2] = DigestHeader(from)
        /\ outcome.value[3] = from.text
        /\ \E payload \in Payloads :
              /\ outcome.value[2] = DigestOf(payload)
              /\ outcome.value[3] = TextOf(payload)
        /\ op.sends = 1 =>
              \/ ~NoManifestsValue(from)
              \/ SchemaVersionIs2(from)
        /\ op.sends = 2 =>
              /\ ~SchemaVersionIs2(op.returned[1])
              /\ SchemaVersionIs2(from)

\* a renegotiation whose two responses differ in digest and text returned the
\* digest and the text of the second
C20_Witness ==
    /\ op.name = "get_manifest" /\ Ended /\ outcome.kind = "return"
    /\ Len(op.returned) = 2
    /\ op.returned[1].text # op.returned[2].text
    /\ DigestHeader(op.returned[1]) # DigestHeader(op.returned[2])
    /\ outcome.value[3] = op.returned[2].text
    /\ outcome.value[2] = DigestHeader(op.returned[2])

====
